---- MODULE Spec2Model ----
(***************************************************************************)
(* State-machine model of the RAG worker (anotherjung/rag-api-workers):    *)
(* the Hono routes of src/src/index.js, the ingestion workflow of          *)
(* src/src/vectorize.js and the vector agent of src/unnamed/part_002.      *)
(*                                                                         *)
(* Strings are sequences of one-character tokens (<<"a">>, <<" ","a">>),   *)
(* so that trim() and concatenation are computed; fixed literals of the    *)
(* code are single tokens.  Scores are in tenths (5 stands for 0.5).       *)
(***************************************************************************)
EXTENDS Integers, Sequences, FiniteSets, TLC

VARIABLES
    notes,      \* D1 table notes: id -> text
    nextId,     \* the AUTOINCREMENT sequence of notes.id
    vectors,    \* Vectorize index: id string -> embedding values
    wf,         \* RAG_WORKFLOW instances, in creation order
    last,       \* what the step just taken did and answered
    deleted,    \* history: ids whose DELETE /notes/:id ran both deletes
    batch,      \* the call of VectorAgent.batchSearch under way
    awaiting    \* the requests that wait at an await between two store calls

vars == <<notes, nextId, vectors, wf, last, deleted, batch, awaiting>>

-----------------------------------------------------------------------------
\* Bounds of the model
MaxNotes == 2
MaxInstances == 1
MaxQueries == 4

\* Program constants
SIMILARITY_THRESHOLD == 5
RootTopK == 5
SearchTopK == 10

DEFAULT_QUESTION == <<"describe Machine Learning ?">>
EMBEDDING_MODEL == "@cf/baai/bge-base-en-v1.5"
DEFAULT_MODEL == "@cf/meta/llama-3.2-1b-instruct"
ADVANCED_MODEL == "@cf/meta/llama-3.1-70b-instruct"

\* Input alphabets
Undefined == [type |-> "undefined"]
NotJson == [type |-> "notjson"]
Str(s) == [type |-> "string", val |-> s]
Num(n) == [type |-> "number", val |-> n]
NoteTexts == {<<"a">>, <<"b">>}
Scores == {3, 5, 7, 9}
NoStep == [op |-> "none"]
NoBatch == [pc |-> "idle", queries |-> <<>>, i |-> 1, inflight |-> {},
            outcome |-> <<>>, results |-> <<>>]
NoRequest == [route |-> "none"]
NoneAwaiting == [del |-> NoRequest, search |-> NoRequest, root |-> NoRequest]
NoExtra == <<>>

-----------------------------------------------------------------------------
\* Helpers on strings and sequences

RECURSIVE TrimStart(_)
TrimStart(s) ==
    IF s # <<>> /\ Head(s) = " " THEN TrimStart(Tail(s)) ELSE s

RECURSIVE TrimEnd(_)
TrimEnd(s) ==
    IF s # <<>> /\ s[Len(s)] = " " THEN TrimEnd(SubSeq(s, 1, Len(s) - 1)) ELSE s

Trim(s) == TrimEnd(TrimStart(s))

\* JavaScript's !v
Falsy(v) ==
    \/ v.type = "undefined"
    \/ v.type = "number" /\ v.val = 0
    \/ v.type = "string" /\ v.val = <<>>

Take(s, k) == SubSeq(s, 1, IF k < Len(s) THEN k ELSE Len(s))

\* Decimal digits
DigitChars == <<"0", "1", "2", "3", "4", "5", "6", "7", "8", "9">>
IsDigit(c) == \E i \in DOMAIN DigitChars : DigitChars[i] = c
DigitVal(c) == (CHOOSE i \in DOMAIN DigitChars : DigitChars[i] = c) - 1
AllDigits(s) == \A i \in DOMAIN s : IsDigit(s[i])

RECURSIVE DecVal(_)
DecVal(s) ==
    IF s = <<>> THEN 0
    ELSE 10 * DecVal(SubSeq(s, 1, Len(s) - 1)) + DigitVal(s[Len(s)])

RECURSIVE Digits(_)
Digits(n) ==
    IF n < 10 THEN <<DigitChars[n + 1]>>
    ELSE Digits(n \div 10) \o <<DigitChars[(n % 10) + 1]>>

RECURSIVE Pow10(_)
Pow10(k) == IF k = 0 THEN 1 ELSE 10 * Pow10(k - 1)

RECURSIVE FirstIn(_, _, _)
\* the first position from i on of s that holds a token of cs, Len(s) + 1 if
\* there is none
FirstIn(s, cs, i) ==
    IF i > Len(s) \/ s[i] \in cs THEN i ELSE FirstIn(s, cs, i + 1)

\* record.id.toString(): the join key between the two stores
IdStr(n) == Digits(n)

Range(s) == {s[i] : i \in DOMAIN s}

RECURSIVE AscendingIds(_)
AscendingIds(S) ==
    IF S = {} THEN <<>>
    ELSE LET m == CHOOSE x \in S : \A y \in S : x <= y
         IN  <<m>> \o AscendingIds(S \ {m})

\* isLocalEnvironment: the request's host header contains "localhost"
Hosts == {"localhost:8787", "example.com"}
isLocalEnvironment(host) == host = "localhost:8787"

\* env.AI.run(EMBEDDING_MODEL, {text}).data[0]
Embed(text) == <<"bge", text>>

-----------------------------------------------------------------------------
\* D1: the notes table

\* INSERT INTO notes (text, metadata) VALUES (?, ?) RETURNING *
DbInsert(N, id, text) == N @@ (id :> text)

\* the value m * 10^e against the id n (both below 2^31); a negative number
\* equals no id but 0
SqlCompare(n, negative, m, e) ==
    IF negative \/ m = 0 THEN m = 0 /\ n = 0
    ELSE IF e > 9 \/ e < 0 - 9 THEN FALSE
    ELSE IF e >= 0 THEN n % Pow10(e) = 0 /\ n \div Pow10(e) = m
    ELSE m % Pow10(0 - e) = 0 /\ m \div Pow10(0 - e) = n

\* the exponent after the e: [sign] digits
SqlExpDigits(p) == IF p # <<>> /\ p[1] \in {"+", "-"} THEN Tail(p) ELSE p
SqlExpOk(p) == SqlExpDigits(p) # <<>> /\ AllDigits(SqlExpDigits(p))
SqlExpVal(p) ==
    IF p # <<>> /\ p[1] = "-" THEN 0 - DecVal(Tail(p)) ELSE DecVal(SqlExpDigits(p))

\* digits before and after the point, one of them at least, and the exponent
SqlValue(n, negative, int, frac, hasExp, expPart) ==
    /\ AllDigits(int)
    /\ AllDigits(frac)
    /\ Len(int) + Len(frac) > 0
    /\ hasExp => SqlExpOk(expPart)
    /\ SqlCompare(n, negative, DecVal(int \o frac),
                  (IF hasExp THEN SqlExpVal(expPart) ELSE 0) - Len(frac))

\* the mantissa cut at its first point
SqlMantissa(n, negative, mantissa, dot, hasExp, expPart) ==
    SqlValue(n, negative, SubSeq(mantissa, 1, dot - 1),
             SubSeq(mantissa, dot + 1, Len(mantissa)), hasExp, expPart)

\* the number cut at its first e
SqlExponent(n, negative, body, ePos) ==
    SqlMantissa(n, negative, SubSeq(body, 1, ePos - 1),
                FirstIn(SubSeq(body, 1, ePos - 1), {"."}, 1),
                ePos <= Len(body), SubSeq(body, ePos + 1, Len(body)))

\* the sign
SqlSigned(n, t) ==
    IF t # <<>> /\ t[1] \in {"+", "-"}
    THEN SqlExponent(n, t[1] = "-", Tail(t), FirstIn(Tail(t), {"e", "E"}, 1))
    ELSE SqlExponent(n, FALSE, t, FirstIn(t, {"e", "E"}, 1))

\* id = ? with a TEXT parameter against the INTEGER PRIMARY KEY: SQLite gives
\* the text the numeric affinity of the column, so a text that reads as a
\* number ([sign] digits [. digits] [e [sign] digits], blanks around it
\* ignored) is compared by value: "01", "+1", "1.0" and "1e0" all equal 1.
\* A text that is no number equals no id.
SqlIdEquals(n, idStr) == SqlSigned(n, Trim(idStr))

\* rows matched by WHERE id = ? with a string parameter
DbRowsById(N, idStr) == {n \in DOMAIN N : SqlIdEquals(n, idStr)}

\* DELETE FROM notes WHERE id = ?
DbDelete(N, idStr) == [n \in DOMAIN N \ DbRowsById(N, idStr) |-> N[n]]

\* SELECT * FROM notes WHERE id IN (...), without ORDER BY: the rows as the
\* scan of the primary key yields them, in rowid order
DbSelectIn(N, idStrs) ==
    AscendingIds({n \in DOMAIN N : \E k \in DOMAIN idStrs : SqlIdEquals(n, idStrs[k])})

-----------------------------------------------------------------------------
\* Vectorize: the vector index

VecUpsert(V, idStr, values) ==
    [k \in DOMAIN V \cup {idStr} |-> IF k = idStr THEN values ELSE V[k]]

VecDeleteByIds(V, idStrs) == [k \in DOMAIN V \ idStrs |-> V[k]]

\* The rankings the index can answer for one query: every stored vector once,
\* scores non-increasing; sc gives the similarity of each vector to the query.
Rankings(V, sc) ==
    LET n == Cardinality(DOMAIN V)
    IN  {r \in [1..n -> DOMAIN V] :
            /\ \A i, j \in 1..n : i # j => r[i] # r[j]
            /\ \A i, j \in 1..n : i < j => sc[r[i]] >= sc[r[j]]}

\* VECTORIZE.query(vector, {topK}).matches
VecQuery(rank, sc, topK) ==
    Take([i \in DOMAIN rank |-> [id |-> rank[i], score |-> sc[rank[i]]]], topK)

-----------------------------------------------------------------------------
\* Responses

\* handleError(c, error, message, status): the failed collaborator call stands
\* for error.message, shown only when env.DEBUG is set
handleError(debug, failedCall, message, status) ==
    [status |-> status,
     body |-> [error |-> message,
               details |-> IF debug THEN failedCall ELSE "undefined"]]

\* Mutant: the call that throws is issued once more
CallsUntil_Retry(calls, failAt) ==
    IF failAt \in 1..Len(calls)
    THEN Take(calls, failAt) \o <<calls[failAt]>>
    ELSE calls

\* The calls a handler makes when the k-th of them throws (k = 0: none does)
CallsUntil(calls, failAt) ==
    IF failAt \in 1..Len(calls) THEN Take(calls, failAt) ELSE calls

Throws(calls, failAt) == failAt \in 1..Len(calls)

-----------------------------------------------------------------------------
\* DELETE /notes/:id

DeleteCalls == <<"DB.delete", "VECTORIZE.deleteByIds">>

\* Mutant: the record-store delete is undone when the vector delete throws
DeleteLegs_Rollback(trimmedId, failAt, N, V) ==
    IF failAt = 1
    THEN [notes |-> N, vectors |-> V, calls |-> Take(DeleteCalls, 1),
          failed |-> TRUE, removed |-> 0]
    ELSE IF failAt = 2
    THEN [notes |-> N, vectors |-> V, calls |-> DeleteCalls,
          failed |-> TRUE, removed |-> 0]
    ELSE [notes |-> DbDelete(N, trimmedId),
          vectors |-> VecDeleteByIds(V, {trimmedId}), calls |-> DeleteCalls,
          failed |-> FALSE, removed |-> Cardinality(DbRowsById(N, trimmedId))]

\* Mutant: the two deletes are issued whatever the other's outcome
DeleteLegs_Independent(trimmedId, failAt, N, V) ==
    IF failAt = 1
    THEN [notes |-> N, vectors |-> VecDeleteByIds(V, {trimmedId}),
          calls |-> DeleteCalls, failed |-> TRUE, removed |-> 0]
    ELSE IF failAt = 2
    THEN [notes |-> DbDelete(N, trimmedId), vectors |-> V, calls |-> DeleteCalls,
          failed |-> TRUE, removed |-> Cardinality(DbRowsById(N, trimmedId))]
    ELSE [notes |-> DbDelete(N, trimmedId),
          vectors |-> VecDeleteByIds(V, {trimmedId}), calls |-> DeleteCalls,
          failed |-> FALSE, removed |-> Cardinality(DbRowsById(N, trimmedId))]

\* The production branch: await DB...run(), then await VECTORIZE.deleteByIds;
\* the call that throws ends it.  removed: the rows the DELETE removed
DeleteLegs(trimmedId, failAt, N, V) ==
    IF failAt = 1
    THEN [notes |-> N, vectors |-> V, calls |-> Take(DeleteCalls, 1),
          failed |-> TRUE, removed |-> 0]
    ELSE IF failAt = 2
    THEN [notes |-> DbDelete(N, trimmedId), vectors |-> V, calls |-> DeleteCalls,
          failed |-> TRUE, removed |-> Cardinality(DbRowsById(N, trimmedId))]
    ELSE [notes |-> DbDelete(N, trimmedId),
          vectors |-> VecDeleteByIds(V, {trimmedId}), calls |-> DeleteCalls,
          failed |-> FALSE, removed |-> Cardinality(DbRowsById(N, trimmedId))]

\* What the application answers when a handler returns no Response: Hono
\* throws, app.onError passes the error to handleError
NotFinalized == "Context is not finalized"

\* The stores and the response after app.delete("/notes/:id") when no other
\* request is served meanwhile.  A delete that went through ends in
\* `return c.status(204)`, which returns undefined: the answer is the 500
\* of app.onError, after both deletes were applied
DeleteNote(id, host, debug, failAt, N, V) ==
    LET trimmedId == Trim(id)
        base == [op |-> "DELETE", id |-> trimmedId, local |-> FALSE,
                 calls |-> <<>>, failed |-> FALSE, removed |-> 0]
        legs == DeleteLegs(trimmedId, failAt, N, V)
    IN  IF Len(Trim(id)) = 0
        THEN [notes |-> N, vectors |-> V,
              resp |-> base @@ [status |-> 400,
                   body |-> [error |-> "Note ID is required and cannot be empty"]]]
        ELSE IF isLocalEnvironment(host)
        THEN [notes |-> N, vectors |-> V,
              resp |-> [base EXCEPT !.local = TRUE] @@ [status |-> 200,
                   body |-> [message |-> "Delete functionality disabled in local dev",
                             noteId |-> trimmedId]]]
        ELSE [notes |-> legs.notes, vectors |-> legs.vectors,
              resp |-> [base EXCEPT !.calls = legs.calls, !.failed = legs.failed,
                                    !.removed = legs.removed]
                       @@ (IF legs.failed
                           THEN handleError(debug, legs.calls[Len(legs.calls)],
                                            "Failed to delete note", 500)
                           ELSE handleError(debug, NotFinalized,
                                            "Internal server error", 500))]

\* the :id of the requests: the ids as the API gives them, a blank one, and
\* another spelling of id 1
PathIds == {IdStr(n) : n \in 1..MaxNotes} \cup {<<" ">>, <<"0", "1">>}

\* the rows WHERE id = ? matches, as the DELETE removes them
RowsOf(N, idStr) == [n \in DbRowsById(N, idStr) |-> N[n]]

\* DELETE /notes/:id up to the answer of its first await: a request that is
\* rejected, served locally or whose DB delete throws (failAt 1) is answered;
\* otherwise the rows are removed and the request waits for the index
Delete(id, host, debug, failAt) ==
    /\ awaiting.del = NoRequest
    /\ LET r == DeleteNote(id, host, debug, failAt, notes, vectors)
       IN  /\ notes' = r.notes
           /\ IF r.resp.failed \/ r.resp.calls = <<>>
              THEN /\ vectors' = r.vectors
                   /\ last' = r.resp
                   /\ awaiting' = awaiting
              ELSE /\ vectors' = vectors
                   /\ last' = [op |-> "await", route |-> "DELETE", id |-> r.resp.id]
                   /\ awaiting' = [awaiting EXCEPT !.del =
                                      [route |-> "DELETE", id |-> id, host |-> host,
                                       debug |-> debug,
                                       before |-> RowsOf(notes, r.resp.id)]]
    /\ UNCHANGED <<nextId, wf, deleted, batch>>

\* The request goes on after the DB delete: VECTORIZE.deleteByIds on the
\* index as it is now (failAt 2: it throws), then the answer.  The handler's
\* outcome is computed on the table with the removed rows put back; the rows
\* written since then stay as they are.
DeleteVectorLeg(failAt) ==
    /\ awaiting.del # NoRequest
    /\ LET d == awaiting.del
           r == DeleteNote(d.id, d.host, d.debug, failAt, notes @@ d.before, vectors)
       IN  /\ notes' = notes @@ r.notes
           /\ vectors' = r.vectors
           /\ last' = [r.resp EXCEPT !.removed = Cardinality(DOMAIN d.before)]
    /\ awaiting' = [awaiting EXCEPT !.del = NoRequest]
    /\ UNCHANGED <<nextId, wf, deleted, batch>>

\* The same step, with the history variable `deleted` kept
DeleteVectorLegTracked(failAt) ==
    /\ awaiting.del # NoRequest
    /\ LET d == awaiting.del
           r == DeleteNote(d.id, d.host, d.debug, failAt, notes @@ d.before, vectors)
       IN  /\ notes' = notes @@ r.notes
           /\ vectors' = r.vectors
           /\ last' = [r.resp EXCEPT !.removed = Cardinality(DOMAIN d.before)]
           /\ deleted' = IF r.resp.failed THEN deleted
                         ELSE deleted \cup {r.resp.id}
    /\ awaiting' = [awaiting EXCEPT !.del = NoRequest]
    /\ UNCHANGED <<nextId, wf, batch>>

-----------------------------------------------------------------------------
\* GET /search

RECURSIVE FilterMatches_Reversed(_, _)
\* Mutant: the kept matches come out last first
FilterMatches_Reversed(ms, keep) ==
    IF ms = <<>> THEN <<>>
    ELSE IF keep[Head(ms).score]
         THEN FilterMatches_Reversed(Tail(ms), keep) \o <<Head(ms)>>
         ELSE FilterMatches_Reversed(Tail(ms), keep)

RECURSIVE FilterMatches(_, _)
\* the matches m of ms, in order, for which keep[m.score] is TRUE
FilterMatches(ms, keep) ==
    IF ms = <<>> THEN <<>>
    ELSE IF keep[Head(ms).score]
         THEN <<Head(ms)>> \o FilterMatches(Tail(ms), keep)
         ELSE FilterMatches(Tail(ms), keep)

\* if (match.score < SIMILARITY_THRESHOLD) continue
SearchKeeps(score) == ~(score < SIMILARITY_THRESHOLD)

RECURSIVE InsertByScore(_, _)
\* x put into a score-descending sequence, after the elements it ties with
InsertByScore(x, sorted) ==
    IF sorted = <<>> THEN <<x>>
    ELSE IF Head(sorted).score >= x.score
         THEN <<Head(sorted)>> \o InsertByScore(x, Tail(sorted))
         ELSE <<x>> \o sorted

RECURSIVE SortByScoreDesc(_)
\* results.sort((a, b) => b.score - a.score), a stable sort
SortByScoreDesc(rs) ==
    IF rs = <<>> THEN <<>>
    ELSE InsertByScore(rs[Len(rs)], SortByScoreDesc(SubSeq(rs, 1, Len(rs) - 1)))

RECURSIVE SearchRows_KeepMissing(_, _)
\* Mutant: a match without a row still yields a result
SearchRows_KeepMissing(kept, N) ==
    IF kept = <<>> THEN <<>>
    ELSE LET m == Head(kept)
             rows == DbRowsById(N, m.id)
         IN  <<[id |-> m.id, score |-> m.score,
                text |-> IF rows # {} THEN N[CHOOSE n \in rows : TRUE]
                         ELSE <<"undefined">>]>>
             \o SearchRows_KeepMissing(Tail(kept), N)

RECURSIVE SearchRows(_, _)
\* the loop over the kept matches: SELECT * FROM notes WHERE id = ? for each,
\* and a result for each match that has a row
SearchRows(kept, N) ==
    IF kept = <<>> THEN <<>>
    ELSE LET m == Head(kept)
             rows == DbRowsById(N, m.id)
         IN  (IF rows # {}
              THEN <<[id |-> m.id, score |-> m.score,
                      text |-> N[CHOOSE n \in rows : TRUE]]>>
              ELSE <<>>) \o SearchRows(Tail(kept), N)

\* The response of app.get("/search"); rank and sc are the index's answer.
\* failedAt: which of the request's calls threw (0: none)
Search(q, host, debug, failAt, rank, sc, N) ==
    LET base == [op |-> "GET /search", local |-> FALSE, calls |-> <<>>,
                 failed |-> FALSE, failedAt |-> 0, index |-> <<>>]
    IN  IF Falsy(q) \/ Len(Trim(q.val)) = 0
        THEN base @@ [status |-> 400,
                 body |-> [error |-> "Query parameter 'q' is required and cannot be empty"]]
        ELSE IF isLocalEnvironment(host)
        THEN [base EXCEPT !.local = TRUE] @@ [status |-> 200,
                 body |-> [query |-> Trim(q.val), count |-> 0, results |-> <<>>,
                           metadata |-> [environment |-> "local",
                                         vectorSearchEnabled |-> FALSE]]]
        ELSE
        LET matches == VecQuery(rank, sc, SearchTopK)
            kept == FilterMatches(matches, [x \in Scores |-> SearchKeeps(x)])
            calls == <<"AI.embed", "VECTORIZE.query">>
                     \o [i \in 1..Len(kept) |-> "DB.select"]
            results == SortByScoreDesc(SearchRows(kept, N))
        IN  IF Throws(calls, failAt)
            THEN [base EXCEPT !.calls = CallsUntil(calls, failAt), !.failed = TRUE,
                              !.failedAt = failAt,
                              !.index = IF failAt <= 2 THEN <<>> ELSE matches]
                 @@ handleError(debug, calls[failAt], "Search service unavailable", 503)
            ELSE [base EXCEPT !.calls = calls, !.index = matches] @@ [status |-> 200,
                 body |-> [query |-> Trim(q.val), count |-> Len(results),
                           results |-> results,
                           metadata |-> [environment |-> "production",
                                         vectorSearchEnabled |-> TRUE,
                                         similarityThreshold |-> SIMILARITY_THRESHOLD,
                                         totalMatches |-> Len(matches),
                                         filteredMatches |-> Len(results)]]]

-----------------------------------------------------------------------------
\* GET /

\* match.score > SIMILARITY_THRESHOLD
RootKeeps(score) == score > SIMILARITY_THRESHOLD

\* Mutant: every token but the default one selects the advanced model
ModelName_Loose(model) ==
    LET selectedModel == IF Falsy(model) THEN <<"llama">> ELSE model.val
    IN  IF selectedModel = <<"llama">> THEN DEFAULT_MODEL ELSE ADVANCED_MODEL

\* const modelName = selectedModel === "llama-70b" ? ADVANCED_MODEL : DEFAULT_MODEL
ModelName(model) ==
    LET selectedModel == IF Falsy(model) THEN <<"llama">> ELSE model.val
    IN  IF selectedModel = <<"llama-70b">> THEN ADVANCED_MODEL ELSE DEFAULT_MODEL

\* Mutant: the header names the default model
ModelUsedHeader_Default(modelName) == DEFAULT_MODEL

\* createResponse(..., 200, { 'x-model-used': modelName }), copied to c.header
ModelUsedHeader(modelName) == modelName

\* c.req.query("text") || DEFAULT_QUESTION
Question(text) == IF Falsy(text) THEN DEFAULT_QUESTION ELSE text.val

RECURSIVE Bullets(_)
\* notes.map(note => `- ${note}`).join("\n")
Bullets(ns) ==
    IF ns = <<>> THEN <<>>
    ELSE <<"- ">> \o Head(ns)
         \o (IF Tail(ns) = <<>> THEN <<>> ELSE <<"\n">> \o Bullets(Tail(ns)))

\* the context block; "" when there are no notes
ContextMessage(ns) ==
    IF Len(ns) # 0 THEN <<"Context:\n">> \o Bullets(ns) ELSE <<>>

SystemPrompt ==
    <<"When answering the question or responding, use the context provided, if it is provided and relevant.">>

\* Mutant: the context message is sent even when it is empty
Messages_AlwaysContext(ns, question) ==
    <<[role |-> "system", content |-> ContextMessage(ns)],
      [role |-> "system", content |-> SystemPrompt],
      [role |-> "user", content |-> question]>>

\* the messages of the generation call
Messages(ns, question) ==
    (IF Len(ns) # 0
     THEN <<[role |-> "system", content |-> ContextMessage(ns)]>>
     ELSE <<>>)
    \o <<[role |-> "system", content |-> SystemPrompt],
         [role |-> "user", content |-> question]>>

\* what the generation function answers
Answer == <<"generated">>

\* the arguments of a generation call, when the handler got to make it
Generation(calls, modelName, messages) ==
    IF calls # <<>> /\ calls[Len(calls)] = "AI.generate"
    THEN <<[model |-> modelName, messages |-> messages]>>
    ELSE <<>>

\* The response of app.get("/"); rank and sc are the index's answer.
\* Beside the response: the calls made, which of them threw (failedAt, 0:
\* none), the answer of the index (index), the note texts read from D1
\* (resolved) and the generation call's arguments
Root(text, model, host, debug, failAt, rank, sc, N) ==
    LET question == Question(text)
        modelName == ModelName(model)
        base == [op |-> "GET /", local |-> FALSE, calls |-> <<>>, failed |-> FALSE,
                 failedAt |-> 0, question |-> question, index |-> <<>>,
                 resolved |-> <<>>, generation |-> <<>>]
    IN  IF isLocalEnvironment(host)
        THEN LET gen == <<[model |-> modelName,
                           messages |-> <<[role |-> "user", content |-> question]>>]>>
             IN  IF failAt = 1
                 THEN [base EXCEPT !.local = TRUE, !.calls = <<"AI.generate">>,
                                   !.failed = TRUE, !.failedAt = 1,
                                   !.generation = gen]
                      @@ handleError(debug, "AI.generate", "Failed to process query", 500)
                 ELSE [base EXCEPT !.local = TRUE, !.calls = <<"AI.generate">>,
                                   !.generation = gen]
                      @@ [status |-> 200, modelUsedHeader |-> ModelUsedHeader(modelName),
                          body |-> [response |-> Answer,
                                    metadata |-> [environment |-> "local",
                                                  modelUsed |-> modelName,
                                                  vectorSearchEnabled |-> FALSE,
                                                  question |-> question]]]
        ELSE
        LET matches == VecQuery(rank, sc, RootTopK)
            kept == FilterMatches(matches, [x \in Scores |-> RootKeeps(x)])
            matchingIds == [i \in 1..Len(kept) |-> kept[i].id]
            rows == IF Len(matchingIds) > 0 THEN DbSelectIn(N, matchingIds) ELSE <<>>
            ns == [i \in 1..Len(rows) |-> N[rows[i]]]
            calls == <<"AI.embed", "VECTORIZE.query">>
                     \o (IF Len(matchingIds) > 0 THEN <<"DB.select">> ELSE <<>>)
                     \o <<"AI.generate">>
            made == CallsUntil(calls, failAt)
            seen == [base EXCEPT
                       !.calls = made,
                       !.index = IF Throws(calls, failAt) /\ failAt <= 2
                                 THEN <<>> ELSE matches,
                       !.resolved = IF made[Len(made)] = "AI.generate"
                                    THEN ns ELSE <<>>,
                       !.generation = Generation(made, modelName,
                                                 Messages(ns, question))]
        IN  IF Throws(calls, failAt)
            THEN [seen EXCEPT !.failed = TRUE, !.failedAt = failAt]
                 @@ handleError(debug, calls[failAt], "Failed to process query", 500)
            ELSE seen
                 @@ [status |-> 200, modelUsedHeader |-> ModelUsedHeader(modelName),
                     body |-> [answer |-> Answer, question |-> question,
                               context |-> ns,
                               metadata |->
                                   [environment |-> "production",
                                    modelUsed |-> modelName,
                                    vectorSearchEnabled |-> TRUE,
                                    matchCount |-> Len(matchingIds),
                                    contextFound |-> Len(ns) > 0,
                                    similarityThreshold |-> SIMILARITY_THRESHOLD]]]

-----------------------------------------------------------------------------
\* POST /notes

\* !text || typeof text !== "string" || text.trim().length === 0
InvalidNoteText(text) ==
    Falsy(text) \/ text.type # "string" \/ Len(Trim(text.val)) = 0

\* A workflow instance as RAG_WORKFLOW.create({params}) leaves it
NewInstance(params) ==
    [pc |-> "queued", payload |-> params, record |-> 0, embedding |-> <<>>,
     made |-> {}]

\* The instances and the response after app.post("/notes").  A body that
\* c.req.json() cannot read, or that is null, throws inside the try: 500 with
\* no call made, on either host.  The 201 given to createResponse is not
\* handed to c.json, which answers its default 200
PostNotes(text, host, debug, failAt, W) ==
    LET base == [op |-> "POST", local |-> FALSE, calls |-> <<>>, failed |-> FALSE]
    IN  IF text = NotJson
        THEN [wf |-> W,
              resp |-> [base EXCEPT !.failed = TRUE]
                       @@ handleError(debug, "c.req.json",
                                      "Failed to create note", 500)]
        ELSE IF InvalidNoteText(text)
        THEN [wf |-> W,
              resp |-> base @@ [status |-> 400,
                   body |-> [error |-> "Valid text content is required"]]]
        ELSE IF isLocalEnvironment(host)
        THEN [wf |-> W,
              resp |-> [base EXCEPT !.local = TRUE] @@ [status |-> 200,
                   body |-> [success |-> TRUE,
                             message |-> "Text received successfully",
                             text |-> Trim(text.val),
                             metadata |-> [environment |-> "local",
                                           workflowEnabled |-> FALSE,
                                           characterCount |-> Len(Trim(text.val))]]]]
        ELSE IF failAt = 1
        THEN [wf |-> W,
              resp |-> [base EXCEPT !.calls = <<"RAG_WORKFLOW.create">>,
                                    !.failed = TRUE]
                       @@ handleError(debug, "RAG_WORKFLOW.create",
                                      "Failed to create note", 500)]
        ELSE [wf |-> Append(W, NewInstance([text |-> Str(Trim(text.val))])),
              resp |-> [base EXCEPT !.calls = <<"RAG_WORKFLOW.create">>]
                       @@ [status |-> 200,
                           body |-> [success |-> TRUE,
                                     workflowId |-> Len(W) + 1,
                                     message |-> "Note processing started",
                                     text |-> Trim(text.val),
                                     metadata |-> [environment |-> "production",
                                                   workflowEnabled |-> TRUE,
                                                   characterCount |-> Len(Trim(text.val)),
                                                   processingStatus |-> "initiated"]]]]

\* the values the body's text field takes
BodyTexts ==
    {Undefined, Num(123), Str(<<>>), Str(<<" ">>), Str(<<"a">>), Str(<<" ", "b">>)}

\* what `const { text } = await c.req.json()` meets: a text, or a body that
\* is not a JSON object
RequestBodies == BodyTexts \cup {NotJson}

Post(text, host, debug, failAt) ==
        LET r == PostNotes(text, host, debug, failAt, wf)
        IN  /\ Len(r.wf) <= MaxInstances
            /\ wf' = r.wf
            /\ last' = r.resp
            /\ UNCHANGED <<notes, nextId, vectors, deleted, batch, awaiting>>

-----------------------------------------------------------------------------
\* RAGWorkflow.run: one action per step attempt.  A step.do callback that
\* returned is checkpointed and not run again; one that threw is retried.
\* wf[i].made holds the ids the INSERTs of instance i were given.

Instances == DOMAIN wf

\* What a step attempt leaves in `last`; retry: it directly follows a failed
\* attempt of the same step of the same instance
StepDone(i, step, ok) ==
    [op |-> "wf", inst |-> i, step |-> step, ok |-> ok,
     retry |-> /\ last.op = "wf"
               /\ last.inst = i
               /\ last.step = step
               /\ ~last.ok]

\* Mutant: only the type of text is checked, an empty string goes through
WfStart_EmptyAccepted(i) ==
    /\ wf[i].pc = "queued"
    /\ LET text == wf[i].payload.text
       IN  IF text.type # "string"
           THEN /\ wf' = [wf EXCEPT ![i].pc = "errored"]
                /\ last' = StepDone(i, "validate", FALSE)
           ELSE /\ wf' = [wf EXCEPT ![i].pc = "persist"]
                /\ last' = StepDone(i, "validate", TRUE)
    /\ UNCHANGED <<notes, nextId, vectors, deleted, batch, awaiting>>

\* run() up to the first step: the payload is validated
WfStart(i) ==
    /\ wf[i].pc = "queued"
    /\ LET text == wf[i].payload.text
       IN  IF Falsy(text) \/ text.type # "string"
           THEN /\ wf' = [wf EXCEPT ![i].pc = "errored"]
                /\ last' = StepDone(i, "validate", FALSE)
           ELSE /\ wf' = [wf EXCEPT ![i].pc = "persist"]
                /\ last' = StepDone(i, "validate", TRUE)
    /\ UNCHANGED <<notes, nextId, vectors, deleted, batch, awaiting>>

\* Mutant: the INSERT is keyed by the instance, a retry after a committed
\* insert finds the row again instead of adding one
WfPersistOk_Idempotent(i) ==
    /\ wf[i].pc = "persist"
    /\ IF wf[i].made # {}
       THEN /\ wf' = [wf EXCEPT ![i].pc = "embed",
                                ![i].record = CHOOSE n \in wf[i].made : TRUE]
            /\ UNCHANGED <<notes, nextId>>
       ELSE /\ nextId <= MaxNotes
            /\ notes' = DbInsert(notes, nextId, wf[i].payload.text.val)
            /\ nextId' = nextId + 1
            /\ wf' = [wf EXCEPT ![i].pc = "embed", ![i].record = nextId,
                                ![i].made = @ \cup {nextId}]
    /\ last' = StepDone(i, "persist", TRUE)
    /\ UNCHANGED <<vectors, deleted, batch, awaiting>>

\* Step 1 returns the inserted row
WfPersistOk(i) ==
    /\ wf[i].pc = "persist"
    /\ nextId <= MaxNotes
    /\ notes' = DbInsert(notes, nextId, wf[i].payload.text.val)
    /\ nextId' = nextId + 1
    /\ wf' = [wf EXCEPT ![i].pc = "embed", ![i].record = nextId,
                        ![i].made = @ \cup {nextId}]
    /\ last' = StepDone(i, "persist", TRUE)
    /\ UNCHANGED <<vectors, deleted, batch, awaiting>>

\* Step 1 throws before the INSERT commits
WfPersistFail(i) ==
    /\ wf[i].pc = "persist"
    /\ wf' = wf
    /\ last' = StepDone(i, "persist", FALSE)
    /\ UNCHANGED <<notes, nextId, vectors, deleted, batch, awaiting>>

\* Step 1 is reported failed after the INSERT committed (the answer of D1 is
\* lost, or the attempt ends before its result is checkpointed)
WfPersistLost(i) ==
    /\ wf[i].pc = "persist"
    /\ nextId <= MaxNotes
    /\ notes' = DbInsert(notes, nextId, wf[i].payload.text.val)
    /\ nextId' = nextId + 1
    /\ wf' = [wf EXCEPT ![i].made = @ \cup {nextId}]
    /\ last' = StepDone(i, "persist", FALSE)
    /\ UNCHANGED <<vectors, deleted, batch, awaiting>>

\* Mutant: the embedding is not awaited behind step 1, it can be computed
\* while the INSERT has not returned
WfEmbedOk_BeforePersist(i) ==
    /\ wf[i].pc \in {"persist", "embed"}
    /\ wf' = [wf EXCEPT ![i].pc = "index",
                        ![i].embedding = Embed(wf[i].payload.text.val)]
    /\ last' = StepDone(i, "embed", TRUE)
    /\ UNCHANGED <<notes, nextId, vectors, deleted, batch, awaiting>>

\* Step 2 returns embeddings.data[0]
WfEmbedOk(i) ==
    /\ wf[i].pc = "embed"
    /\ wf' = [wf EXCEPT ![i].pc = "index",
                        ![i].embedding = Embed(wf[i].payload.text.val)]
    /\ last' = StepDone(i, "embed", TRUE)
    /\ UNCHANGED <<notes, nextId, vectors, deleted, batch, awaiting>>

\* Mutant: the INSERT is not inside a checkpointed step, so a failed embed
\* runs the pipeline again from the insert
WfEmbedFail_Restart(i) ==
    /\ wf[i].pc = "embed"
    /\ wf' = [wf EXCEPT ![i].pc = "persist"]
    /\ last' = StepDone(i, "embed", FALSE)
    /\ UNCHANGED <<notes, nextId, vectors, deleted, batch, awaiting>>

\* Step 2 throws: AI.run failed or answered without data[0]
WfEmbedFail(i) ==
    /\ wf[i].pc = "embed"
    /\ wf' = wf
    /\ last' = StepDone(i, "embed", FALSE)
    /\ UNCHANGED <<notes, nextId, vectors, deleted, batch, awaiting>>

\* The value run() returns
WfResult(w) ==
    [success |-> TRUE, recordId |-> w.record, text |-> w.payload.text.val]

\* Step 3 upserts the vector, and run() returns
WfIndexOk(i) ==
    /\ wf[i].pc = "index"
    /\ vectors' = VecUpsert(vectors, IdStr(wf[i].record), wf[i].embedding)
    /\ wf' = [wf EXCEPT ![i].pc = "done"]
    /\ last' = StepDone(i, "index", TRUE)
    /\ UNCHANGED <<notes, nextId, deleted, batch, awaiting>>

\* Mutant: a failed insert of the vector takes the Note of step 1 back
WfIndexFail_Rollback(i) ==
    /\ wf[i].pc = "index"
    /\ wf' = wf
    /\ notes' = DbDelete(notes, IdStr(wf[i].record))
    /\ last' = StepDone(i, "index", FALSE)
    /\ UNCHANGED <<nextId, vectors, deleted, batch, awaiting>>

\* Mutant: a failed insert of the vector is not retried, the instance ends
WfIndexFail_GiveUp(i) ==
    /\ wf[i].pc = "index"
    /\ wf' = [wf EXCEPT ![i].pc = "errored"]
    /\ last' = StepDone(i, "index", FALSE)
    /\ UNCHANGED <<notes, nextId, vectors, deleted, batch, awaiting>>

\* Step 3 throws
WfIndexFail(i) ==
    /\ wf[i].pc = "index"
    /\ wf' = wf
    /\ last' = StepDone(i, "index", FALSE)
    /\ UNCHANGED <<notes, nextId, vectors, deleted, batch, awaiting>>

-----------------------------------------------------------------------------
\* The deployed worker: requests reach it under its production host

Init ==
    /\ notes = <<>>
    /\ nextId = 1
    /\ vectors = <<>>
    /\ wf = <<>>
    /\ last = NoStep
    /\ deleted = {}
    /\ batch = NoBatch
    /\ awaiting = NoneAwaiting

ProdHost == "example.com"

\* the bodies posted to the running system: no text, no JSON, a text
SystemBodies == {Undefined, NotJson, Str(<<"a">>)}

\* What the index may answer: a similarity for every stored vector
ScoreMaps(scores) == [DOMAIN vectors -> scores]

\* the kept matches whose SELECT the handler of GET /search gets to
SearchKept(q, host, failAt, rank, sc) ==
    IF Falsy(q) \/ Len(Trim(q.val)) = 0 \/ isLocalEnvironment(host) \/ failAt \in 1..2
    THEN <<>>
    ELSE FilterMatches(VecQuery(rank, sc, SearchTopK),
                       [x \in Scores |-> SearchKeeps(x)])

\* GET /search up to the answer of the index: a request that makes no SELECT
\* is answered; otherwise it waits for its first SELECT, with what the index
\* answered (rank, sc) and the rows it has read so far (seen).  extra: what a
\* specification keeps of the request beside the response
GetSearch(q, host, debug, failAt, scores, extra) ==
    /\ awaiting.search = NoRequest
    /\ \E sc \in ScoreMaps(scores) : \E rank \in Rankings(vectors, sc) :
           IF SearchKept(q, host, failAt, rank, sc) = <<>>
           THEN /\ last' = Search(q, host, debug, failAt, rank, sc, notes) @@ extra
                /\ awaiting' = awaiting
           ELSE /\ last' = [op |-> "await", route |-> "GET /search"]
                /\ awaiting' = [awaiting EXCEPT !.search =
                                   [route |-> "GET /search", q |-> q, host |-> host,
                                    debug |-> debug, failAt |-> failAt,
                                    rank |-> rank, sc |-> sc,
                                    seen |-> <<>>, at |-> 1, extra |-> extra]]
    /\ UNCHANGED <<notes, nextId, vectors, wf, deleted, batch>>

\* The next SELECT * FROM notes WHERE id = ? of the waiting GET /search reads
\* the table as it is now; after the last one (or when it throws) the request
\* is answered from the rows its SELECTs have read
SearchSelect ==
    /\ awaiting.search # NoRequest
    /\ LET s == awaiting.search
           kept == SearchKept(s.q, s.host, s.failAt, s.rank, s.sc)
           seen == s.seen @@ RowsOf(notes, kept[s.at].id)
       IN  IF s.failAt = 2 + s.at
           THEN /\ last' = Search(s.q, s.host, s.debug, s.failAt, s.rank, s.sc, s.seen)
                           @@ s.extra
                /\ awaiting' = [awaiting EXCEPT !.search = NoRequest]
           ELSE IF s.at = Len(kept)
           THEN /\ last' = Search(s.q, s.host, s.debug, s.failAt, s.rank, s.sc, seen)
                           @@ s.extra
                /\ awaiting' = [awaiting EXCEPT !.search = NoRequest]
           ELSE /\ last' = [op |-> "await", route |-> "GET /search"]
                /\ awaiting' = [awaiting EXCEPT !.search.seen = seen,
                                                !.search.at = s.at + 1]
    /\ UNCHANGED <<notes, nextId, vectors, wf, deleted, batch>>

\* the kept matches whose rows the handler of GET / gets to select
RootKept(host, failAt, rank, sc) ==
    IF isLocalEnvironment(host) \/ failAt \in 1..2
    THEN <<>>
    ELSE FilterMatches(VecQuery(rank, sc, RootTopK), [x \in Scores |-> RootKeeps(x)])

\* GET / up to the answer of the index: a request that makes no SELECT (local
\* mode, a call that threw, no match kept) goes on to its answer; otherwise
\* it waits for its SELECT with what the index answered (rank, sc)
GetRoot(text, model, host, debug, failAt, scores, extra) ==
    /\ awaiting.root = NoRequest
    /\ \E sc \in ScoreMaps(scores) : \E rank \in Rankings(vectors, sc) :
           IF RootKept(host, failAt, rank, sc) = <<>>
           THEN /\ last' = Root(text, model, host, debug, failAt, rank, sc, notes)
                           @@ extra
                /\ awaiting' = awaiting
           ELSE /\ last' = [op |-> "await", route |-> "GET /"]
                /\ awaiting' = [awaiting EXCEPT !.root =
                                   [route |-> "GET /", text |-> text, model |-> model,
                                    host |-> host, debug |-> debug, failAt |-> failAt,
                                    rank |-> rank, sc |-> sc, extra |-> extra]]
    /\ UNCHANGED <<notes, nextId, vectors, wf, deleted, batch>>

\* The SELECT * FROM notes WHERE id IN (...) of the waiting GET / reads the
\* table as it is now; the generation call and the answer follow it
RootSelect ==
    /\ awaiting.root # NoRequest
    /\ LET r == awaiting.root
       IN  last' = Root(r.text, r.model, r.host, r.debug, r.failAt, r.rank, r.sc,
                        notes) @@ r.extra
    /\ awaiting' = [awaiting EXCEPT !.root = NoRequest]
    /\ UNCHANGED <<notes, nextId, vectors, wf, deleted, batch>>

\* The DELETE requests for stored notes that are served while a GET waits for
\* its SELECT
DeleteBeside ==
    /\ awaiting.search # NoRequest \/ awaiting.root # NoRequest
    /\ \E n \in DOMAIN notes : Delete(IdStr(n), ProdHost, FALSE, 0)

\* In the whole system a query either misses a vector or matches it well
HitOrMiss == {3, 9}

\* The steps of the workflow instances
WfStep ==
    \/ \E i \in Instances : WfStart(i)
    \/ \E i \in Instances : WfPersistOk(i)
    \/ \E i \in Instances : WfPersistFail(i)
    \/ \E i \in Instances : WfPersistLost(i)
    \/ \E i \in Instances : WfEmbedOk(i)
    \/ \E i \in Instances : WfEmbedFail(i)
    \/ \E i \in Instances : WfIndexOk(i)
    \/ \E i \in Instances : WfIndexFail(i)

\* The write path: notes are posted and deleted while the pipelines run
Next ==
    \/ \E text \in SystemBodies, failAt \in 0..1 : Post(text, ProdHost, FALSE, failAt)
    \/ \E id \in PathIds, failAt \in 0..1 : Delete(id, ProdHost, FALSE, failAt)
    \/ \E failAt \in {0, 2} : DeleteVectorLeg(failAt)
    \/ WfStep

Spec == Init /\ [][Next]_vars

\* The same with GET /search beside it, and the deletions that went through
\* remembered
NextHist ==
    \/ \E text \in SystemBodies, failAt \in 0..1 : Post(text, ProdHost, FALSE, failAt)
    \/ \E id \in PathIds, failAt \in 0..1 : Delete(id, ProdHost, FALSE, failAt)
    \/ \E failAt \in {0, 2} : DeleteVectorLegTracked(failAt)
    \/ GetSearch(Str(<<"q">>), ProdHost, FALSE, 0, HitOrMiss, NoExtra)
    \/ SearchSelect
    \/ WfStep

SpecHist == Init /\ [][NextHist]_vars

-----------------------------------------------------------------------------
\* The pipeline on its own: instances created with any payload (run()
\* validates event.payload itself), beside the DELETE route

Payloads == {[text |-> t] : t \in {Undefined, Num(123), Str(<<>>), Str(<<"a">>)}}

InitIngest ==
    /\ notes = <<>>
    /\ nextId = 1
    /\ vectors = <<>>
    /\ wf \in UNION {[1..n -> {NewInstance(params) : params \in Payloads}] :
                         n \in 1..MaxInstances}
    /\ last = NoStep
    /\ deleted = {}
    /\ batch = NoBatch
    /\ awaiting = NoneAwaiting

NextIngest ==
    \/ WfStep
    \/ \E id \in PathIds, failAt \in 0..1 : Delete(id, ProdHost, FALSE, failAt)
    \/ \E failAt \in {0, 2} : DeleteVectorLeg(failAt)

SpecIngest == InitIngest /\ [][NextIngest]_vars

-----------------------------------------------------------------------------
\* The pipeline under a substrate that retries: every failed attempt is
\* followed by another, and an attempt that can succeed eventually does.
\* Instances are created by POST /notes, and DELETE /notes/:id is served while
\* they run, as on the write path of Next (the GET routes write nothing).

\* Instances whose step 1 has not returned yet, those still to be created
\* included
AwaitingInsert ==
    MaxInstances - Cardinality({i \in DOMAIN wf :
                                   wf[i].pc \in {"embed", "index", "done", "errored"}})

\* The ids of the model are bounded: an INSERT whose answer is lost is drawn
\* only while an id is left for every instance that still has to insert
LivePersistLost(i) ==
    /\ nextId + AwaitingInsert <= MaxNotes
    /\ WfPersistLost(i)

\* The attempt of instance i's current step that returns
LiveStep(i) ==
    /\ i \in DOMAIN wf
    /\ \/ WfStart(i)
       \/ WfPersistOk(i)
       \/ WfEmbedOk(i)
       \/ WfIndexOk(i)

NextLive ==
    \/ \E text \in SystemBodies, failAt \in 0..1 : Post(text, ProdHost, FALSE, failAt)
    \/ \E id \in PathIds, failAt \in 0..1 : Delete(id, ProdHost, FALSE, failAt)
    \/ \E failAt \in {0, 2} : DeleteVectorLeg(failAt)
    \/ \E i \in Instances : WfStart(i)
    \/ \E i \in Instances : WfPersistOk(i)
    \/ \E i \in Instances : WfPersistFail(i)
    \/ \E i \in Instances : LivePersistLost(i)
    \/ \E i \in Instances : WfEmbedOk(i)
    \/ \E i \in Instances : WfEmbedFail(i)
    \/ \E i \in Instances : WfIndexOk(i)
    \/ \E i \in Instances : WfIndexFail(i)

SpecLive ==
    /\ Init
    /\ [][NextLive]_vars
    /\ \A i \in 1..MaxInstances : WF_vars(LiveStep(i))

-----------------------------------------------------------------------------
\* The query path: one request to one of the two read-only routes, over every
\* content the two stores can have, and the deletions served beside it

\* a vector embeds the text of the note with its id, while that note exists
StoresAgree(N, V) ==
    \A n \in DOMAIN N : IdStr(n) \in DOMAIN V => V[IdStr(n)] = Embed(N[n])

\* the notes stored: any of the ids, the texts taken in turn
NoteTextOf(n) == IF n % 2 = 1 THEN <<"a">> ELSE <<"b">>
NoteTables == {[n \in S |-> NoteTextOf(n)] : S \in SUBSET (1..MaxNotes)}

VectorTables ==
    UNION {[S -> {Embed(<<"a">>)}] : S \in SUBSET {IdStr(n) : n \in 1..MaxNotes}}

InitQuery ==
    /\ notes \in NoteTables
    /\ nextId = MaxNotes + 1
    /\ vectors \in {V \in UNION {[DOMAIN X -> {Embed(t) : t \in NoteTexts}] :
                                  X \in VectorTables} :
                        /\ StoresAgree(notes, V)
                        /\ \A k \in DOMAIN V :
                              (\A n \in DOMAIN notes : IdStr(n) # k)
                                  => V[k] = Embed(<<"a">>)}
    /\ wf = <<>>
    /\ last = NoStep
    /\ deleted = {}
    /\ batch = NoBatch
    /\ awaiting = NoneAwaiting

QueryParams == {Undefined, Str(<<>>), Str(<<" ">>), Str(<<"q">>)}
QuestionParams == {Undefined, Str(<<"q">>)}
ModelParams == {Undefined, Str(<<"llama-70b">>)}

\* One request per behaviour, and the DELETE requests served while it waits
\* for its rows: the routes change neither store themselves, so a second
\* request meets the states of the first
QuerySearch ==
    /\ last = NoStep
    /\ \E q \in QueryParams, host \in Hosts, failAt \in 0..(MaxNotes + 2) :
           GetSearch(q, host, FALSE, failAt, Scores, NoExtra)

QueryRoot ==
    /\ last = NoStep
    /\ \E text \in QuestionParams, model \in ModelParams, host \in Hosts,
          failAt \in 0..4 :
           GetRoot(text, model, host, FALSE, failAt, Scores, NoExtra)

NextQuery ==
    \/ QuerySearch
    \/ SearchSelect
    \/ QueryRoot
    \/ RootSelect
    \/ DeleteBeside
    \/ DeleteVectorLeg(0)

SpecQuery == InitQuery /\ [][NextQuery]_vars

-----------------------------------------------------------------------------
\* The caller's input: one POST /notes or one GET /search, with the text or
\* the q of the request kept beside the response

InputPost ==
    /\ last = NoStep
    /\ \E text \in RequestBodies, host \in Hosts, failAt \in 0..1 :
           \E debug \in (IF failAt = 0 /\ text # NotJson THEN {FALSE} ELSE BOOLEAN) :
               LET r == PostNotes(text, host, debug, failAt, wf)
               IN  /\ wf' = r.wf
                   /\ last' = r.resp @@ [input |-> text]
    /\ UNCHANGED <<notes, nextId, vectors, deleted, batch, awaiting>>

InputSearch ==
    /\ last = NoStep
    /\ \E q \in QueryParams, host \in Hosts, failAt \in 0..(MaxNotes + 2) :
           GetSearch(q, host, FALSE, failAt, HitOrMiss, [input |-> q])

NextInput ==
    \/ InputPost
    \/ InputSearch
    \/ SearchSelect
    \/ DeleteBeside
    \/ DeleteVectorLeg(0)

SpecInput == InitQuery /\ [][NextInput]_vars

-----------------------------------------------------------------------------
\* Failure responses: the routes' catch blocks and the catch block of the
\* first default export of index.js, with the DEBUG flag of the deployment
\* kept beside the response

Methods == {"POST", "GET", "PUT"}

\* fetch(request, env, ctx): POST parses the body and answers without the
\* workflow, GET with a non-empty q answers without the index, anything else
\* runs the model; the catch answers 500 with error.message and error.stack.
\* The call that threw stands for error.message and for error.stack; env is
\* not consulted.
fetch(method, text, q, failAt) ==
    LET calls == IF method = "POST" THEN <<"request.json">>
                 ELSE IF method = "GET" /\ ~Falsy(q) THEN <<>>
                 ELSE <<"AI.run">>
        base == [op |-> "fetch", method |-> method,
                 calls |-> CallsUntil(calls, failAt),
                 failed |-> Throws(calls, failAt)]
    IN  IF Throws(calls, failAt)
        THEN base @@ [status |-> 500,
                      body |-> [error |-> calls[failAt],
                                stack |-> calls[failAt]]]
        ELSE IF method = "POST"
        THEN base @@ [status |-> 200,
                      body |-> [success |-> TRUE,
                                message |-> "Text received successfully",
                                text |-> text,
                                note |-> "Workflow processing temporarily disabled in local dev"]]
        ELSE IF method = "GET" /\ ~Falsy(q)
        THEN base @@ [status |-> 200,
                      body |-> [message |-> "Search functionality temporarily disabled in local dev",
                                query |-> q,
                                note |-> "Vectorize local bindings not yet supported"]]
        ELSE base @@ [status |-> 200, body |-> [response |-> Answer]]

FailureFetch ==
    /\ last = NoStep
    /\ \E method \in Methods, text \in BodyTexts, q \in QueryParams,
          failAt \in 0..1, debug \in BOOLEAN :
           last' = fetch(method, text, q, failAt) @@ [debug |-> debug]
    /\ UNCHANGED <<notes, nextId, vectors, wf, deleted, batch, awaiting>>

FailureRoot ==
    /\ last = NoStep
    /\ \E text \in QueryParams, host \in Hosts, failAt \in 0..4, debug \in BOOLEAN :
           GetRoot(text, Undefined, host, debug, failAt, HitOrMiss, [debug |-> debug])

FailureSearch ==
    /\ last = NoStep
    /\ \E q \in QueryParams, host \in Hosts, failAt \in 0..(MaxNotes + 2),
          debug \in BOOLEAN :
           GetSearch(q, host, debug, failAt, HitOrMiss, [debug |-> debug])

NextFailure ==
    \/ FailureFetch
    \/ FailureRoot
    \/ RootSelect
    \/ FailureSearch
    \/ SearchSelect
    \/ DeleteBeside
    \/ DeleteVectorLeg(0)

SpecFailure == InitQuery /\ [][NextFailure]_vars

-----------------------------------------------------------------------------
\* Model selection: GET / with the request's model token kept beside the
\* response

ModelTokens ==
    ModelParams \cup {Str(<<"llama">>), Str(<<"bogus">>), Str(<<>>),
                      Str(<<"llama-70b", " ">>), Str(<<"LLAMA-70B">>)}

SelectModel ==
    /\ last = NoStep
    /\ \E model \in ModelTokens, host \in Hosts, failAt \in 0..4 :
           GetRoot(Str(<<"q">>), model, host, FALSE, failAt, HitOrMiss,
                   [model |-> model])

NextSelect ==
    \/ SelectModel
    \/ RootSelect
    \/ DeleteBeside
    \/ DeleteVectorLeg(0)

SpecSelect == InitQuery /\ [][NextSelect]_vars

-----------------------------------------------------------------------------
\* VectorAgent (src/unnamed/part_002)

DefaultTopK == 10
DefaultThreshold == 7

\* const { topK = this.defaultTopK, threshold = 0.7 } = options
OptionOr(opt, default) == IF opt.type = "undefined" THEN default ELSE opt.val

\* Mutant: only a missing response is refused
InvalidEmbedding_Lenient(response) == response = "null"

\* !response || !response.data || !response.data[0]
EmbedResponses == {"vector", "null", "nodata", "novector"}
InvalidEmbedding(response) == response # "vector"

\* Mutant: a match at the threshold is dropped
AgentKeeps_Strict(score, threshold) == score > threshold

\* match.score >= threshold
AgentKeeps(score, threshold) == score >= threshold

RECURSIVE MaxScore(_)
\* Math.max(...results.map(r => r.score || 0))
MaxScore(rs) ==
    IF Len(rs) = 1 THEN Head(rs).score
    ELSE LET m == MaxScore(Tail(rs))
         IN  IF Head(rs).score > m THEN Head(rs).score ELSE m

\* BaseAgent.normalizeScores; score / maxScore is kept as the fraction
\* num/den
normalizeScores(rs) ==
    IF Len(rs) = 0 THEN <<>>
    ELSE LET maxScore == MaxScore(rs)
         IN  IF maxScore = 0 THEN rs
             ELSE [i \in 1..Len(rs) |->
                      rs[i] @@ [normalizedScore |->
                                   [num |-> rs[i].score, den |-> maxScore]]]

\* VectorAgent.search: what it returns or throws, with the calls it made and
\* the answer of the index as it saw it
AgentSearch(query, topKOpt, thresholdOpt, response, failAt, rank, sc) ==
    LET topK == OptionOr(topKOpt, DefaultTopK)
        threshold == OptionOr(thresholdOpt, DefaultThreshold)
        base == [op |-> "agent.search", query |-> query, topK |-> topK,
                 threshold |-> threshold, calls |-> <<"AI.embed">>,
                 index |-> <<>>, results |-> <<>>]
        matches == VecQuery(rank, sc, topK)
        kept == FilterMatches(matches,
                              [x \in {sc[k] : k \in DOMAIN sc} |->
                                  AgentKeeps(x, threshold)])
        results == [i \in 1..Len(kept) |->
                       [id |-> kept[i].id, score |-> kept[i].score,
                        source |-> "vector", agent |-> "VectorAgent"]]
    IN  IF failAt = 1
        THEN base @@ [ok |-> FALSE,
                 error |-> <<"Vector search failed: ",
                             "Embedding generation failed: ", "AI.embed">>]
        ELSE IF InvalidEmbedding(response)
        THEN base @@ [ok |-> FALSE,
                 error |-> <<"Vector search failed: ",
                             "Embedding generation failed: ",
                             "Invalid embedding response">>]
        ELSE IF failAt = 2
        THEN [base EXCEPT !.calls = <<"AI.embed", "VECTORIZE.query">>]
             @@ [ok |-> FALSE,
                 error |-> <<"Vector search failed: ", "VECTORIZE.query">>]
        ELSE [base EXCEPT !.calls = <<"AI.embed", "VECTORIZE.query">>,
                          !.index = matches,
                          !.results = normalizeScores(results)]
             @@ [ok |-> TRUE, error |-> <<>>]

AgentScores == {0, 5, 7, 9}
TopKOptions == {Undefined, Num(1), Num(2)}
ThresholdOptions == {Undefined, Num(0), Num(5), Num(9)}

AgentQueries == {Str(<<"q">>), Str(<<>>)}

\* One call of search; the answer of AI.run (response) and the call that
\* throws (failAt) are kept beside what the call returned
VectorSearch ==
    /\ last = NoStep
    /\ \E query \in AgentQueries, topKOpt \in TopKOptions,
          thresholdOpt \in ThresholdOptions,
          response \in EmbedResponses, failAt \in 0..2 :
           \E sc \in ScoreMaps(AgentScores) : \E rank \in Rankings(vectors, sc) :
               /\ last' = AgentSearch(query, topKOpt, thresholdOpt,
                                      response, failAt, rank, sc)
                           @@ [response |-> response, failAt |-> failAt]
               /\ UNCHANGED <<notes, nextId, vectors, wf, deleted, batch, awaiting>>

\* The agent reads the index alone: every content the index can have
InitAgent ==
    /\ notes = <<>>
    /\ nextId = MaxNotes + 1
    /\ vectors \in VectorTables
    /\ wf = <<>>
    /\ last = NoStep
    /\ deleted = {}
    /\ batch = NoBatch
    /\ awaiting = NoneAwaiting

NextAgent == VectorSearch

SpecAgent == InitAgent /\ [][NextAgent]_vars

-----------------------------------------------------------------------------
\* VectorAgent.batchSearch: one call, from its first group to its return or
\* throw.  batch.queries are the queries, batch.i the (1-based) start of the
\* group under way, batch.inflight the positions whose search has been
\* called and has not settled, batch.outcome what each settled search
\* returned or threw, batch.results the Map being filled.

\* const concurrency = 3
Concurrency == 3

BatchQueries == {<<"p">>, <<"q">>}
BatchScores == {5, 9}

QuerySeqs == UNION {[1..n -> BatchQueries] : n \in 0..MaxQueries}

\* the state of a call at its first loop test
NewBatch(queries) ==
    [pc |-> "loop", queries |-> queries, i |-> 1, inflight |-> {},
     outcome |-> <<>>, results |-> <<>>]

\* Mutant: every remaining query is searched at once
GroupOf_All(i, n) == i..n

\* queries.slice(i, i + concurrency), as positions
GroupOf(i, n) == i..(IF i + Concurrency - 1 < n THEN i + Concurrency - 1 ELSE n)

\* results.set(query, value)
MapSet(m, q, v) == [x \in DOMAIN m \cup {q} |-> IF x = q THEN v ELSE m[x]]

\* Mutant: every query of a group is given the result of the group's first
BatchResultAt_First(outcome, i, idx) == outcome[i].results

\* batchResults[idx] of the group that starts at i
BatchResultAt(outcome, i, idx) == outcome[i + idx].results

RECURSIVE StoreGroup(_, _, _, _, _, _)
\* batch.forEach((query, idx) => results.set(query, batchResults[idx])), from
\* idx on, for a group of n queries that starts at i
StoreGroup(results, queries, outcome, i, idx, n) ==
    IF idx >= n THEN results
    ELSE StoreGroup(MapSet(results, queries[i + idx],
                           BatchResultAt(outcome, i, idx)),
                    queries, outcome, i, idx + 1, n)

BatchStep(step, k) == [op |-> "agent.batchSearch", step |-> step, k |-> k]

\* The loop test: the searches of the next group are called, or the Map is
\* returned
BatchLoop ==
    /\ batch.pc = "loop"
    /\ IF batch.i <= Len(batch.queries)
       THEN /\ batch' = [batch EXCEPT
                            !.pc = "await",
                            !.inflight = @ \cup GroupOf(batch.i, Len(batch.queries))]
            /\ last' = BatchStep("group", batch.i)
       ELSE /\ batch' = [batch EXCEPT !.pc = "returned"]
            /\ last' = BatchStep("return", batch.i)
    /\ UNCHANGED <<notes, nextId, vectors, wf, deleted, awaiting>>

\* Mutant: the group is awaited with Promise.allSettled, a search that throws
\* does not end the call
BatchSettle_AllSettled(k) ==
    /\ k \in batch.inflight
    /\ \E failAt \in 0..1 :
           \E sc \in ScoreMaps(BatchScores) : \E rank \in Rankings(vectors, sc) :
               LET r == AgentSearch(Str(batch.queries[k]), Undefined, Undefined,
                                    "vector", failAt, rank, sc)
               IN  batch' = [batch EXCEPT
                                !.inflight = @ \ {k},
                                !.outcome = (k :> r) @@ @]
    /\ last' = BatchStep("settle", k)
    /\ UNCHANGED <<notes, nextId, vectors, wf, deleted, awaiting>>

\* One search in flight settles.  A search that throws rejects the
\* Promise.all the call awaits: batchSearch throws, the other searches of
\* the group stay in flight
BatchSettle(k) ==
    /\ k \in batch.inflight
    /\ \E failAt \in 0..1 :
           \E sc \in ScoreMaps(BatchScores) : \E rank \in Rankings(vectors, sc) :
               LET r == AgentSearch(Str(batch.queries[k]), Undefined, Undefined,
                                    "vector", failAt, rank, sc)
               IN  batch' = [batch EXCEPT
                                !.inflight = @ \ {k},
                                !.outcome = (k :> r) @@ @,
                                !.pc = IF ~r.ok /\ @ = "await" THEN "thrown" ELSE @]
    /\ last' = BatchStep("settle", k)
    /\ UNCHANGED <<notes, nextId, vectors, wf, deleted, awaiting>>

\* Promise.all resolved: the results of the group are stored, i += concurrency
BatchCollect ==
    /\ batch.pc = "await"
    /\ GroupOf(batch.i, Len(batch.queries)) \cap batch.inflight = {}
    /\ batch' = [batch EXCEPT
                    !.results = StoreGroup(@, batch.queries, batch.outcome, batch.i, 0,
                                    Cardinality(GroupOf(batch.i, Len(batch.queries)))),
                    !.i = @ + Concurrency,
                    !.pc = "loop"]
    /\ last' = BatchStep("collect", batch.i)
    /\ UNCHANGED <<notes, nextId, vectors, wf, deleted, awaiting>>

InitBatch ==
    /\ notes = <<>>
    /\ nextId = 1
    /\ vectors = (<<"1">> :> Embed(<<"a">>))
    /\ wf = <<>>
    /\ last = NoStep
    /\ deleted = {}
    /\ batch \in {NewBatch(queries) : queries \in QuerySeqs}
    /\ awaiting = NoneAwaiting

NextBatch ==
    \/ BatchLoop
    \/ \E k \in 1..Len(batch.queries) : BatchSettle(k)
    \/ BatchCollect

SpecBatch == InitBatch /\ [][NextBatch]_vars

-----------------------------------------------------------------------------
\* Claims

PastPersist == {"embed", "index", "done"}

\* C1 as stated: after a failed attempt of step 2, and after the retry that
\* follows it, the instance accounts for exactly one Note: its INSERTs have
\* made one row, the one it refers to
C1_Original ==
    (/\ last.op = "wf"
     /\ last.step = "embed"
     /\ (~last.ok \/ last.retry)) =>
        wf[last.inst].made = {wf[last.inst].record}

\* C1: once step 1 of an instance has completed, no later step of the system
\* sends that instance back to step 1, changes the Note it recorded or the
\* set of ids its INSERTs were given, and a step attempt of that instance
\* (a failed embed and its retry included) inserts nothing.  The Note it
\* recorded is the row of its last INSERT; the rows of an instance are added
\* one at a time, each by an attempt of its step 1
C1_IdempotentResumption ==
    [][\A i \in DOMAIN wf :
          /\ wf[i].pc \in PastPersist =>
                 /\ wf'[i].pc \in PastPersist
                 /\ wf'[i].record = wf[i].record
                 /\ wf'[i].made = wf[i].made
                 /\ wf[i].record \in wf[i].made
                 /\ \A n \in wf[i].made : n <= wf[i].record
                 /\ (last'.op = "wf" /\ last'.inst = i) =>
                        (notes' = notes /\ nextId' = nextId)
          /\ wf'[i].made # wf[i].made =>
                 /\ wf[i].pc = "persist"
                 /\ last'.op = "wf" /\ last'.inst = i /\ last'.step = "persist"
                 /\ wf'[i].made = wf[i].made \cup {nextId}
                 /\ nextId \notin wf[i].made]_vars

\* C1 witness: an embed that succeeded as the retry of a failed embed, in an
\* instance whose single INSERT made the one Note it still refers to
C1_Witness ==
    /\ last.op = "wf"
    /\ last.step = "embed"
    /\ last.ok
    /\ last.retry
    /\ wf[last.inst].made = {wf[last.inst].record}
    /\ wf[last.inst].record \in DOMAIN notes

\* C2: a DELETE whose record-store delete succeeded and whose vector-index
\* delete then threw answers an error (500 "Failed to delete note", not 204),
\* and the Note it removed is gone: resolving the id afterwards finds no row
C2_DeletionIndependence ==
    (last.op = "DELETE" /\ last.failed /\ last.calls = DeleteCalls) =>
        /\ last.status = 500
        /\ last.body.error = "Failed to delete note"
        /\ last.removed >= 1 => /\ DbRowsById(notes, last.id) = {}
                                /\ DbSelectIn(notes, <<last.id>>) = <<>>

\* C2 witness: such a DELETE removed a Note, and its vector is still indexed
C2_Witness ==
    /\ last.op = "DELETE"
    /\ last.failed
    /\ last.calls = DeleteCalls
    /\ last.removed = 1
    /\ last.id \in DOMAIN vectors

\* C3 as stated: each delete leg is issued whatever the outcome of the other,
\* so after a failure of one leg the other leg's effect is applied
C3_Original ==
    (last.op = "DELETE" /\ ~last.local /\ last.status # 400) =>
        /\ "DB.delete" \in Range(last.calls)
        /\ "VECTORIZE.deleteByIds" \in Range(last.calls)
        /\ (last.failed /\ last.calls[Len(last.calls)] = "DB.delete")
               => last.id \notin DOMAIN vectors
        /\ (last.failed /\ last.calls[Len(last.calls)] = "VECTORIZE.deleteByIds")
               => DbRowsById(notes, last.id) = {}

\* C3, amended: the legs run in sequence.  The record-store delete is issued
\* first; when it throws the request is answered 500, the vector-index
\* delete is not issued and both stores are as they were.  When it succeeds
\* its rows are gone and the index is untouched until the vector-index delete
\* is issued, by that request only; a vector-index delete that throws leaves
\* the record-store delete applied and the index as it was
C3_SequentialLegs ==
    [][/\ (last'.op = "await" /\ last'.route = "DELETE") =>
              /\ awaiting.del = NoRequest
              /\ notes' = DbDelete(notes, last'.id)
              /\ vectors' = vectors
       /\ (last'.op = "DELETE" /\ ~last'.local /\ last'.status # 400) =>
              LET dbFailed == last'.failed /\ last'.calls = <<"DB.delete">>
                  vecFailed == last'.failed /\ last'.calls = DeleteCalls
              IN  /\ last'.calls \in {<<"DB.delete">>, DeleteCalls}
                  /\ (last'.calls = DeleteCalls) <=> ~dbFailed
                  /\ dbFailed => /\ awaiting.del = NoRequest
                                 /\ notes' = notes
                                 /\ vectors' = vectors
                                 /\ last'.status = 500
                  /\ ~dbFailed => /\ awaiting.del # NoRequest
                                  /\ Trim(awaiting.del.id) = last'.id
                                  /\ notes' = notes
                  /\ vecFailed => /\ vectors' = vectors
                                  /\ last'.status = 500
                  /\ ~last'.failed =>
                         vectors' = VecDeleteByIds(vectors, {last'.id})]_vars

\* C3 witness: the record-store delete threw, the vector-index delete was not
\* issued, and the Note and its vector are both still there
C3_Witness ==
    /\ last.op = "DELETE"
    /\ last.failed
    /\ last.calls = <<"DB.delete">>
    /\ DbRowsById(notes, last.id) # {}
    /\ last.id \in DOMAIN vectors

\* C4: what VectorAgent.search returns is, in the order of the index's
\* answer, exactly the matches of that answer with score >= threshold
C4_ThresholdFiltering ==
    (last.op = "agent.search" /\ last.ok) =>
        LET above == {j \in DOMAIN last.index :
                         last.index[j].score >= last.threshold}
        IN  /\ \A i \in DOMAIN last.results :
                  last.results[i].score >= last.threshold
            /\ Len(last.results) = Cardinality(above)
            /\ \A j \in above : \E i \in DOMAIN last.results :
                  /\ last.results[i].id = last.index[j].id
                  /\ last.results[i].score = last.index[j].score
            /\ \A i \in DOMAIN last.results : \E j \in above :
                  /\ last.results[i].id = last.index[j].id
                  /\ last.results[i].score = last.index[j].score

\* C4 witness: of two matches the index answered, the one scored exactly the
\* threshold is returned and the one below it is not
C4_Witness ==
    /\ last.op = "agent.search"
    /\ last.ok
    /\ Len(last.index) = 2
    /\ last.index[1].score = last.threshold
    /\ last.index[2].score < last.threshold
    /\ Len(last.results) = 1
    /\ last.results[1].id = last.index[1].id

\* the ids of the index's answer that a filter keeps
KeptIds(index, Keeps(_)) ==
    {index[j].id : j \in {k \in DOMAIN index : Keeps(index[k].score)}}

\* the ids among ks that have a Note
WithNote(ks) == {k \in ks : DbRowsById(notes, k) # {}}

\* a match is discarded exactly when its score is below the threshold
SpecKeeps(score) == ~(score < SIMILARITY_THRESHOLD)

\* C5 as stated: on GET / and on GET /search the matches kept are those of
\* the index's answer whose score is not below 0.5, one scored exactly 0.5
\* included: GET / counts them in matchCount and puts the Notes they have in
\* context, GET /search returns those that have a Note
C5_Original ==
    (last.op \in {"GET /", "GET /search"} /\ last.status = 200 /\ ~last.local) =>
        LET keptIds == KeptIds(last.index, SpecKeeps)
        IN  IF last.op = "GET /"
            THEN /\ last.body.metadata.matchCount = Cardinality(keptIds)
                 /\ Len(last.body.context) = Cardinality(WithNote(keptIds))
            ELSE {last.body.results[i].id : i \in DOMAIN last.body.results}
                     = WithNote(keptIds)

Roles(ms) == [i \in DOMAIN ms |-> ms[i].role]

\* the messages the generation call is to receive for the resolved notes
WellFormedMessages(ms, resolved, question) ==
    IF resolved = <<>>
    THEN /\ Roles(ms) = <<"system", "user">>
         /\ ms[1].content = SystemPrompt
         /\ ms[2].content = question
    ELSE /\ Roles(ms) = <<"system", "system", "user">>
         /\ Len(ms[1].content) > 1
         /\ ms[1].content[1] = "Context:\n"
         /\ ms[2].content = SystemPrompt
         /\ ms[3].content = question

\* C6 as stated: every generation call of GET / receives [instruction, user
\* question] when no note was resolved and [context, instruction, user
\* question] when one was
C6_Original ==
    (last.op = "GET /" /\ last.generation # <<>>) =>
        WellFormedMessages(last.generation[1].messages, last.resolved,
                           last.question)

\* C6, amended: outside local mode, the generation call of GET / receives
\* [instruction, user question] and no context message when no note was
\* resolved, and [context, instruction, user question] when one was
C6_ContextOmission ==
    (last.op = "GET /" /\ ~last.local /\ last.generation # <<>>) =>
        WellFormedMessages(last.generation[1].messages, last.resolved,
                           last.question)

\* C6 witness: the index answered a match, no note was resolved, and the
\* generation call got two messages
C6_Witness ==
    /\ last.op = "GET /"
    /\ ~last.local
    /\ last.index # <<>>
    /\ last.resolved = <<>>
    /\ last.generation # <<>>
    /\ Len(last.generation[1].messages) = 2

\* the matches GET / keeps that have a Note, with the Note's text
KeptRows(index) ==
    SearchRows(FilterMatches(index, [x \in Scores |-> RootKeeps(x)]), notes)

\* the ways to list rows by score, descending (matches that tie in any order)
ByScoreDescending(rows) ==
    {p \in [DOMAIN rows -> DOMAIN rows] :
        /\ \A i, j \in DOMAIN rows : i # j => p[i] # p[j]
        /\ \A i, j \in DOMAIN rows : i < j => rows[p[i]].score >= rows[p[j]].score}

\* C7 as stated: the context of GET / has one bullet per resolved note, in the
\* order of the filtered matches by score, descending
C7_Original ==
    (last.op = "GET /" /\ last.status = 200 /\ ~last.local) =>
        LET rows == KeptRows(last.index)
        IN  \E p \in ByScoreDescending(rows) :
               LET texts == [i \in DOMAIN rows |-> rows[p[i]].text]
               IN  /\ last.body.context = texts
                   /\ texts # <<>> =>
                          last.generation[1].messages[1].content
                              = <<"Context:\n">> \o Bullets(texts)

\* the ids among ks for which table N has a row
FoundIn(N, ks) == {k \in ks : DbRowsById(N, k) # {}}

\* C8: a GET / or GET /search none of whose calls throws answers 200, and a
\* kept match that has no Note when the request selects its rows is left out:
\* context has one entry per kept id with a Note, results has exactly the
\* kept ids whose SELECT found a Note (each SELECT of GET /search reads the
\* record store as it is at that step)
C8_PartialResolution ==
    [][/\ (awaiting.search # NoRequest /\ awaiting'.search # NoRequest) =>
              LET kept == FilterMatches(
                              VecQuery(awaiting.search.rank, awaiting.search.sc,
                                       SearchTopK),
                              [x \in Scores |-> SearchKeeps(x)])
              IN  IF awaiting'.search.at = awaiting.search.at
                  THEN awaiting'.search.seen = awaiting.search.seen
                  ELSE DOMAIN awaiting'.search.seen
                           = DOMAIN awaiting.search.seen
                                 \cup DbRowsById(notes, kept[awaiting.search.at].id)
       /\ (/\ last'.op \in {"GET /", "GET /search"}
           /\ ~last'.local
           /\ last'.status # 400
           /\ ~last'.failed) =>
              /\ last'.status = 200
              /\ IF last'.op = "GET /"
                 THEN Len(last'.body.context)
                          = Cardinality(FoundIn(notes, KeptIds(last'.index, RootKeeps)))
                 ELSE LET kept == FilterMatches(last'.index,
                                                [x \in Scores |-> SearchKeeps(x)])
                          read == IF awaiting.search = NoRequest THEN {}
                                  ELSE FoundIn(awaiting.search.seen,
                                               KeptIds(last'.index, SearchKeeps))
                                       \cup FoundIn(notes, {kept[Len(kept)].id})
                      IN  /\ {last'.body.results[i].id :
                                 i \in DOMAIN last'.body.results} = read
                          /\ Len(last'.body.results) = Cardinality(read)]_vars

\* C8 witness: GET /search kept two matches, one with a Note and one without,
\* and answered 200 with the one result
C8_Witness ==
    /\ last.op = "GET /search"
    /\ last.status = 200
    /\ Cardinality(KeptIds(last.index, SearchKeeps)) = 2
    /\ Cardinality(WithNote(KeptIds(last.index, SearchKeeps))) = 1
    /\ Len(last.body.results) = 1

\* C9 as stated: no result of a GET /search has an id for which a DELETE
\* ran both its deletes before
C9_Original ==
    (last.op = "GET /search" /\ last.status = 200) =>
        \A i \in DOMAIN last.body.results : last.body.results[i].id \notin deleted

\* C10 as stated: with no Notes in the record store, a GET / that answers 200
\* has context [] and matchCount 0
C10_Original ==
    (last.op = "GET /" /\ last.status = 200 /\ ~last.local /\ DOMAIN notes = {}) =>
        /\ last.body.context = <<>>
        /\ last.body.metadata.matchCount = 0

\* C11: whatever the model token of a GET /, the request does not fail for
\* it (it answers 200 when no collaborator call throws), and the generation
\* call is given the advanced model for the token llama-70b and the default
\* model, the one the token llama gives, for every other token or none
C11_ModelFallback ==
    (last.op = "GET /") =>
        /\ ~last.failed => (last.status = 200 /\ last.generation # <<>>)
        /\ last.generation # <<>> =>
               last.generation[1].model =
                   IF last.model = Str(<<"llama-70b">>)
                   THEN ADVANCED_MODEL ELSE DEFAULT_MODEL

\* C11 witness: an unrecognized token answered 200 by the default model
C11_Witness ==
    /\ last.op = "GET /"
    /\ last.model = Str(<<"bogus">>)
    /\ last.status = 200
    /\ last.generation[1].model = DEFAULT_MODEL

\* C12: a GET / that answers 200 carries in x-model-used the model the
\* generation call of that request was given
C12_ModelUsedHeader ==
    (last.op = "GET /" /\ last.status = 200) =>
        /\ Len(last.generation) = 1
        /\ last.modelUsedHeader = last.generation[1].model

\* C12 witness: a production request answered by the advanced model
C12_Witness ==
    /\ last.op = "GET /"
    /\ last.status = 200
    /\ ~last.local
    /\ last.generation[1].model = ADVANCED_MODEL
    /\ last.modelUsedHeader = ADVANCED_MODEL

\* C13: a failed attempt of step 2 or of step 3 leaves the record store as it
\* was, the Note of step 1 included: nothing is rolled back
C13_NoRollback ==
    [][(last'.op = "wf" /\ last'.step \in {"embed", "index"} /\ ~last'.ok) =>
          /\ notes' = notes
          /\ wf'[last'.inst].record = wf[last'.inst].record
          /\ wf[last'.inst].record \in DOMAIN notes =>
                 /\ wf'[last'.inst].record \in DOMAIN notes'
                 /\ notes'[wf'[last'.inst].record] = wf[last'.inst].payload.text.val]_vars

\* C13 witness: step 3 failed, the Note of step 1 exists and has no vector
C13_Witness ==
    /\ last.op = "wf"
    /\ last.step = "index"
    /\ ~last.ok
    /\ wf[last.inst].record \in DOMAIN notes
    /\ IdStr(wf[last.inst].record) \notin DOMAIN vectors

\* text that is missing, not a string, or empty
NoText(text) == text.type # "string" \/ text.val = <<>>

\* C14: an instance started with text that is missing, not a string or empty
\* ends in the validation error and runs no step: it inserts no Note, gets
\* no embedding and upserts no vector
C14_IngestionValidation ==
    [][\A i \in DOMAIN wf :
          NoText(wf[i].payload.text) =>
              /\ wf'[i].pc \in {"queued", "errored"}
              /\ wf'[i].made = {}
              /\ wf'[i].record = 0
              /\ wf'[i].embedding = <<>>
              /\ (last'.op = "wf" /\ last'.inst = i) =>
                     /\ last'.step = "validate"
                     /\ ~last'.ok
                     /\ notes' = notes
                     /\ nextId' = nextId
                     /\ vectors' = vectors]_vars

\* C14 witness: an instance given the empty string has failed its validation,
\* both stores empty
C14_Witness ==
    /\ last.op = "wf"
    /\ last.step = "validate"
    /\ ~last.ok
    /\ wf[last.inst].payload.text = Str(<<>>)
    /\ wf[last.inst].pc = "errored"
    /\ notes = <<>>
    /\ vectors = <<>>

\* C15: in a call of batchSearch at most 3 searches are in flight at any
\* moment, and a search is called only when every search of the groups of
\* three before its own has settled
C15_BoundedConcurrency ==
    [][/\ Cardinality(batch'.inflight) <= 3
       /\ \A k \in batch'.inflight \ batch.inflight :
             \A j \in 1..Len(batch.queries) :
                 ((j - 1) \div 3 < (k - 1) \div 3) =>
                     (j \in DOMAIN batch.outcome /\ j \notin batch.inflight)]_vars

\* C15 witness: the fourth search is in flight, the three of the first group
\* have settled
C15_Witness ==
    /\ batch.pc = "await"
    /\ batch.inflight = {4}
    /\ DOMAIN batch.outcome = {1, 2, 3}

\* the last position of query q in queries
LastPosition(queries, q) ==
    CHOOSE k \in DOMAIN queries :
        queries[k] = q /\ \A j \in DOMAIN queries : queries[j] = q => j <= k

\* C16: the Map a call of batchSearch returns has the queries of the input
\* as its keys, and the value of each query is what the search on that query
\* (the last one, for a query given twice) returned
C16_BatchMapping ==
    (batch.pc = "returned") =>
        /\ DOMAIN batch.results = Range(batch.queries)
        /\ \A q \in Range(batch.queries) :
              LET r == batch.outcome[LastPosition(batch.queries, q)]
              IN  /\ r.ok
                  /\ r.query = Str(q)
                  /\ batch.results[q] = r.results

\* C16 witness: a call over four queries returned, and two queries of its
\* first group have different results
C16_Witness ==
    /\ batch.pc = "returned"
    /\ Len(batch.queries) = 4
    /\ batch.queries[1] # batch.queries[2]
    /\ batch.results[batch.queries[1]] # batch.results[batch.queries[2]]
    /\ batch.outcome[1].results # batch.outcome[2].results

\* the largest raw score of a result sequence
LargestScore(rs) ==
    CHOOSE m \in {rs[i].score : i \in DOMAIN rs} :
        \A i \in DOMAIN rs : rs[i].score <= m

\* C17 as stated: every result of a non-empty result sequence of search has
\* its raw score and a normalizedScore; when the largest raw score is not 0
\* it is score / largest (so the largest normalizedScore is 1), when it is 0
\* it is the raw score, 0
C17_Original ==
    (last.op = "agent.search" /\ last.ok /\ last.results # <<>>) =>
        LET largest == LargestScore(last.results)
        IN  /\ \A i \in DOMAIN last.results :
                  /\ "normalizedScore" \in DOMAIN last.results[i]
                  /\ last.results[i].score \in AgentScores
                  /\ IF largest = 0
                     THEN last.results[i].normalizedScore.num = 0
                     ELSE /\ last.results[i].normalizedScore.num
                                 = last.results[i].score
                          /\ last.results[i].normalizedScore.den = largest
            /\ \E i \in DOMAIN last.results :
                  largest # 0 =>
                      last.results[i].normalizedScore.num
                          = last.results[i].normalizedScore.den

\* C18: the results of VectorAgent.search are in the order of the index's
\* answer, which is by score: no result has a higher score than one before it
C18_ResultOrder ==
    (last.op = "agent.search" /\ last.ok) =>
        \A i, j \in DOMAIN last.results :
            i < j => last.results[i].score >= last.results[j].score

\* C18 witness: two results, the first with the higher score
C18_Witness ==
    /\ last.op = "agent.search"
    /\ last.ok
    /\ Len(last.results) = 2
    /\ last.results[1].score > last.results[2].score

\* the embedding of the query failed: AI.run threw, or answered without a
\* first vector
EmbeddingFailed == last.failAt = 1 \/ last.response # "vector"

\* C19 as stated: the embedding of a search fails when the text is empty and
\* when AI.run answers no response, no data or no first vector, and then the
\* index is not given a value that is not a vector
C19_Original ==
    (/\ last.op = "agent.search"
     /\ (last.query = Str(<<>>) \/ last.response # "vector")) =>
        /\ ~last.ok
        /\ last.error[2] = "Embedding generation failed: "
        /\ "VECTORIZE.query" \notin Range(last.calls)

\* C20: when the embedding of the query fails, search throws (it returns no
\* result sequence, empty or not), the error being that of the embedding, and
\* VECTORIZE.query is not called
C20_EmbedErrorPropagates ==
    (last.op = "agent.search" /\ EmbeddingFailed) =>
        /\ ~last.ok
        /\ last.results = <<>>
        /\ last.error[1] = "Vector search failed: "
        /\ last.error[2] = "Embedding generation failed: "
        /\ last.calls = <<"AI.embed">>
        /\ last.index = <<>>

\* C20 witness: AI.run answered data without a first vector to a search over
\* an index that holds vectors, and the search threw
C20_Witness ==
    /\ last.op = "agent.search"
    /\ last.response = "novector"
    /\ last.failAt = 0
    /\ vectors # <<>>
    /\ ~last.ok

\* C21 as stated: a POST /notes whose body has no text, or a text that is
\* not a string, and a GET /search without q, answer 400 with an error body
\* and touch nothing: no collaborator call is made, no pipeline instance is
\* created, the stores are as they were
C21_Original ==
    [][(\/ last'.op = "POST" /\ last'.input.type # "string"
        \/ last'.op = "GET /search" /\ last'.input = Undefined) =>
          /\ last'.status = 400
          /\ "error" \in DOMAIN last'.body
          /\ last'.calls = <<>>
          /\ ~last'.failed
          /\ wf' = wf
          /\ notes' = notes
          /\ vectors' = vectors]_vars

\* C21 for the bodies that are JSON objects: the same, the body that cannot
\* be read as one left out
C21_ParsedBodies ==
    [][(\/ last'.op = "POST" /\ last'.input.type \notin {"string", "notjson"}
        \/ last'.op = "GET /search" /\ last'.input = Undefined) =>
          /\ last'.status = 400
          /\ "error" \in DOMAIN last'.body
          /\ last'.calls = <<>>
          /\ ~last'.failed
          /\ wf' = wf
          /\ notes' = notes
          /\ vectors' = vectors]_vars

\* C22 as stated: a POST /notes with a non-empty string text answers 201 with
\* success and the text; in production one pipeline instance exists for that
\* text, in local mode the body has isLocal = true and no instance exists
C22_Original ==
    (/\ last.op = "POST"
     /\ "input" \in DOMAIN last
     /\ ~InvalidNoteText(last.input)
     /\ ~last.failed) =>
        /\ last.status = 201
        /\ last.body.success
        /\ last.body.text = last.input.val
        /\ IF last.local
           THEN /\ "isLocal" \in DOMAIN last.body
                /\ wf = <<>>
           ELSE wf = <<NewInstance([text |-> last.input])>>

\* how many times call c is in calls
TimesCalled(calls, c) == Cardinality({i \in DOMAIN calls : calls[i] = c})

\* the kept matches of an answer of the index, as the route l.op keeps them
KeptOf(l) ==
    {i \in DOMAIN l.index :
        IF l.op = "GET /" THEN RootKeeps(l.index[i].score)
        ELSE SearchKeeps(l.index[i].score)}

\* the calls the request observed in l makes when none of them throws: from
\* the route, the host and what the index answered
CallsInFull(l) ==
    IF l.local
    THEN <<"AI.generate">>
    ELSE <<"AI.embed", "VECTORIZE.query">>
         \o (IF l.op = "GET /"
             THEN (IF KeptOf(l) # {} THEN <<"DB.select">> ELSE <<>>)
                  \o <<"AI.generate">>
             ELSE [i \in 1..Cardinality(KeptOf(l)) |-> "DB.select"])

\* C23: a GET / or GET /search one of whose collaborator calls threw answers
\* 500 (GET /) or 503 (GET /search) with an error body; the calls it made are
\* the calls of the request up to the one that threw, that one once and last,
\* and the request is over: it waits for no further SELECT
C23_NoRetry ==
    (last.op \in {"GET /", "GET /search"} /\ last.failed) =>
        /\ last.status = (IF last.op = "GET /" THEN 500 ELSE 503)
        /\ "error" \in DOMAIN last.body
        /\ last.failedAt \in 1..Len(CallsInFull(last))
        /\ last.calls = Take(CallsInFull(last), last.failedAt)
        /\ \A c \in {"AI.embed", "VECTORIZE.query", "AI.generate"} :
              TimesCalled(last.calls, c) <= 1
        /\ (IF last.op = "GET /" THEN awaiting.root ELSE awaiting.search) = NoRequest

\* C23 witness: the index gave a production GET /search two matches that it
\* keeps; the SELECT of the first threw, the answer is 503 and the SELECT of
\* the second was never made
C23_Witness ==
    /\ last.op = "GET /search"
    /\ last.failed
    /\ last.status = 503
    /\ Cardinality(KeptOf(last)) = 2
    /\ last.failedAt = 3
    /\ last.calls = <<"AI.embed", "VECTORIZE.query", "DB.select">>

\* The messages the routes' catch blocks pass to handleError
ErrorMessages ==
    {"Failed to process query", "Search service unavailable",
     "Failed to create note", "Failed to delete note", "Internal server error"}

\* C24 as stated: a response to a request one of whose calls threw has an
\* error field holding one of the fixed messages, and, when DEBUG is not set,
\* neither a stack nor the thrown error's message
C24_Original ==
    ("debug" \in DOMAIN last /\ last.failed) =>
        /\ "error" \in DOMAIN last.body
        /\ last.body.error \in ErrorMessages
        /\ ~last.debug =>
              /\ "stack" \notin DOMAIN last.body
              /\ "details" \in DOMAIN last.body => last.body.details = "undefined"

\* C24 for the routes of the Hono application alone
C24_RoutesOnly ==
    ("debug" \in DOMAIN last /\ last.failed /\ last.op # "fetch") =>
        /\ "error" \in DOMAIN last.body
        /\ last.body.error \in ErrorMessages
        /\ "stack" \notin DOMAIN last.body
        /\ last.body.details = (IF last.debug THEN last.calls[Len(last.calls)]
                                ELSE "undefined")

\* C25 as stated: a GET / or a GET /search makes at most one record-store
\* query, however many matches passed the threshold
C25_Original ==
    last.op \in {"GET /", "GET /search"} =>
        TimesCalled(last.calls, "DB.select") <= 1

\* C25 for GET / alone, whose SELECT ... WHERE id IN (...) takes every kept id
C25_RootOnly ==
    last.op = "GET /" => TimesCalled(last.calls, "DB.select") <= 1

\* C26: an attempt of a pipeline step is always an attempt of the one step
\* its instance is at (persist, then embed, then index); when the embedding
\* is attempted the INSERT of step 1 has returned a row of this instance; when
\* the upsert is attempted both have returned, and a successful upsert writes
\* exactly one entry, keyed by the id of that row, whose values are the
\* embedding of the instance's text, the text of that Note
C26_StepOrder ==
    [][\A i \in DOMAIN wf :
          (last'.op = "wf" /\ last'.inst = i) =>
              /\ DOMAIN wf' = DOMAIN wf
              /\ \A j \in DOMAIN wf \ {i} : wf'[j] = wf[j]
              /\ last'.step = (IF wf[i].pc = "queued" THEN "validate" ELSE wf[i].pc)
              /\ last'.step \in {"embed", "index"} =>
                     /\ wf[i].record # 0
                     /\ wf[i].record \in wf[i].made
                     /\ wf[i].record \in DOMAIN notes =>
                            notes[wf[i].record] = wf[i].payload.text.val
              /\ (last'.step = "embed" /\ last'.ok) =>
                     wf'[i].embedding = Embed(wf[i].payload.text.val)
              /\ last'.step = "index" =>
                     wf[i].embedding = Embed(wf[i].payload.text.val)
              /\ IF last'.step = "index" /\ last'.ok
                 THEN vectors' = VecUpsert(vectors, IdStr(wf[i].record),
                                           Embed(wf[i].payload.text.val))
                 ELSE vectors' = vectors
      ]_vars

\* C26 witness: step 3 of an instance has just returned, its Note is in the
\* record store and the index holds the embedding of its text under its id
C26_Witness ==
    /\ last.op = "wf"
    /\ last.step = "index"
    /\ last.ok
    /\ wf[last.inst].record \in DOMAIN notes
    /\ IdStr(wf[last.inst].record) \in DOMAIN vectors
    /\ vectors[IdStr(wf[last.inst].record)] = Embed(notes[wf[last.inst].record])

\* C27: an attempt of step 1 that is reported failed after its INSERT
\* committed leaves the row in the record store and the instance at step 1,
\* and every attempt of step 1 that returns has inserted a row of its own:
\* a new id, the instance's text, the rows of earlier attempts untouched
C27_RetryInsertsAgain ==
    [][\A i \in DOMAIN wf :
          (last'.op = "wf" /\ last'.inst = i /\ last'.step = "persist") =>
              /\ (~last'.ok /\ notes' # notes) =>
                     /\ notes' = DbInsert(notes, nextId, wf[i].payload.text.val)
                     /\ wf'[i].pc = "persist"
                     /\ wf'[i].made = wf[i].made \cup {nextId}
              /\ last'.ok =>
                     /\ nextId \notin DOMAIN notes
                     /\ nextId \notin wf[i].made
                     /\ notes' = DbInsert(notes, nextId, wf[i].payload.text.val)
                     /\ wf'[i].record = nextId
                     /\ wf'[i].made = wf[i].made \cup {nextId}
      ]_vars

\* C27 witness: the retry of step 1 has returned, and the record store holds
\* two Notes of the one instance, with the same text and different ids
C27_Witness ==
    /\ last.op = "wf"
    /\ last.step = "persist"
    /\ last.ok
    /\ last.retry
    /\ \E a, b \in wf[last.inst].made :
          /\ a # b
          /\ a \in DOMAIN notes
          /\ b \in DOMAIN notes
          /\ notes[a] = notes[b]
          /\ notes[a] = wf[last.inst].payload.text.val

\* the text run() validates and goes on with
ValidPayload(w) == w.payload.text.type = "string" /\ ~Falsy(w.payload.text)

\* run() of instance i has just returned, with success and the id of the row
\* its step 1 returned
JustReturned(i) ==
    /\ i \in DOMAIN wf
    /\ last.op = "wf" /\ last.inst = i /\ last.step = "index" /\ last.ok
    /\ wf[i].pc = "done"
    /\ WfResult(wf[i]).success
    /\ WfResult(wf[i]).recordId = wf[i].record
    /\ wf[i].record \in wf[i].made

\* C28 as stated: under the retrying substrate, an instance that has not
\* returned yet and whose text passes run()'s validation leads to the state in
\* which run() has just returned success: recordId is the id of its Note, the
\* record store holds that Note and the index an entry under the same id
C28_Original ==
    \A i \in 1..MaxInstances :
        (/\ i \in DOMAIN wf
         /\ ValidPayload(wf[i])
         /\ wf[i].pc # "done")
        ~> (/\ JustReturned(i)
            /\ wf[i].record \in DOMAIN notes
            /\ notes[wf[i].record] = wf[i].payload.text.val
            /\ IdStr(wf[i].record) \in DOMAIN vectors)

\* C28: under the retrying substrate, an instance that has not returned yet
\* and whose text passes run()'s validation leads to the state in which run()
\* has just returned success with recordId the id of the row step 1 returned;
\* at that point the index holds under that id the embedding of the
\* instance's text, and the record store holds the Note with that text unless
\* a DELETE removed the row: a row leaves the record store only by the DB
\* delete of a DELETE /notes/:id that matched it
C28_IngestionCompletes ==
    /\ \A i \in 1..MaxInstances :
           (/\ i \in DOMAIN wf
            /\ ValidPayload(wf[i])
            /\ wf[i].pc # "done")
           ~> (/\ JustReturned(i)
               /\ IdStr(wf[i].record) \in DOMAIN vectors
               /\ vectors[IdStr(wf[i].record)] = Embed(wf[i].payload.text.val)
               /\ wf[i].record \in DOMAIN notes =>
                      notes[wf[i].record] = wf[i].payload.text.val)
    /\ [][\A n \in DOMAIN notes :
             n \notin DOMAIN notes' =>
                 /\ awaiting.del = NoRequest
                 /\ awaiting'.del # NoRequest
                 /\ n \in DOMAIN awaiting'.del.before
                 /\ SqlIdEquals(n, awaiting'.del.id)]_vars

\* C28 witness: run() has just returned after a failed attempt of its last
\* step; the index holds the entry and the record store the Note
C28_Witness ==
    /\ last.op = "wf"
    /\ last.step = "index"
    /\ last.ok
    /\ last.retry
    /\ JustReturned(last.inst)
    /\ wf[last.inst].record \in DOMAIN notes
    /\ IdStr(wf[last.inst].record) \in DOMAIN vectors

\* C29 as stated, for the vector index: once a DELETE /notes/:id has run both
\* its deletes and the record store has no Note with that id, no later state
\* has a vector with that id, whatever the pipelines do meanwhile
C29_Original ==
    \A id \in deleted :
        DbRowsById(notes, id) = {} => id \notin DOMAIN vectors

\* the positions whose search threw
BatchFailures == {k \in DOMAIN batch.outcome : ~batch.outcome[k].ok}

\* C30: once a search of a batchSearch call has thrown, the call has thrown
\* and does not return its Map; the failed search belongs to the group under
\* way, the Map holds nothing of that group, and no search of a later group
\* has been called
C30_BatchFailsWhole ==
    BatchFailures # {} =>
        /\ batch.pc = "thrown"
        /\ BatchFailures \subseteq GroupOf(batch.i, Len(batch.queries))
        /\ \A k \in batch.inflight \cup DOMAIN batch.outcome :
              k < batch.i + Concurrency
        /\ \A q \in DOMAIN batch.results :
              \E k \in 1..(batch.i - 1) : batch.queries[k] = q

\* C30 witness: a search of the first group of four queries threw while
\* another was in flight; the call has thrown and the fourth query was never
\* searched
C30_Witness ==
    /\ batch.pc = "thrown"
    /\ Len(batch.queries) > Concurrency
    /\ batch.i = 1
    /\ BatchFailures # {}
    /\ batch.inflight # {}
    /\ Len(batch.queries) \notin batch.inflight \cup DOMAIN batch.outcome

====
